---- MODULE Spec2Model ----
(***************************************************************************)
(* The incremental lint runner: client/bin/lint.js with its helpers        *)
(* client/bin/utils/git.js and client/bin/utils/shell.js.                  *)
(*                                                                         *)
(* One run of the script is one behaviour.  The script is a single         *)
(* cooperative control flow; pc is its position.  What the outside world   *)
(* answers (git's output, the lint engine's results) is chosen when the    *)
(* script asks for it; the command line and the disk are chosen in Init.   *)
(* Text is modelled as TLA+ strings, and parsing, prefix/suffix tests and  *)
(* substring search are computed character by character as the code does.  *)
(***************************************************************************)
EXTENDS Integers, Sequences, FiniteSets, TLC

VARIABLES
    pc,                \* position of the script
    argv,              \* process.argv: the set of flags passed
    missing,           \* the disk: paths for which fs.existsSync is false
    lintOptions,       \* lint.js:122  { fix: hasArg('--fix') }
    committedFiles,    \* git.js getChangedFiles: const committedFiles
    uncommittedFiles,  \* git.js getChangedFiles: const uncommittedFiles
    changeSet,         \* the value getChangedFiles returns
    changedFiles,      \* lint.js:133  const changedFiles
    triggerFiles,      \* lint.js:58   const triggerFiles
    committedDiff,     \* git.js:66    const committedDiff
    uncommittedDiff,   \* git.js:67    const uncommittedDiff
    configFileChanged, \* lint.js:135  const configFileChanged
    filteredChangedFiles, \* lint.js:143
    mode,              \* which branch of runLinting was taken
    lintResults,       \* what runLintOnFiles returned
    engineThrew,       \* the lint engine threw inside runLintOnFiles
    thrown,            \* the exception leaving runLinting, if any
    gitCmds,           \* every command handed to runCmd, in order, with what
                       \* it wrote to standard error and its exit code
    lintCalls,         \* every call of eslint.lintFiles, in order
    log,               \* console output, in order
    exitCode           \* the process exit code

vars == <<pc, argv, missing, lintOptions, committedFiles, uncommittedFiles,
          changeSet, changedFiles, triggerFiles, committedDiff,
          uncommittedDiff, configFileChanged, filteredChangedFiles, mode,
          lintResults, engineThrew, thrown, gitCmds, lintCalls, log, exitCode>>

-----------------------------------------------------------------------------
(* Bounds of the model.                                                    *)

\* At most this many status lines over the two queries of one lint run.
MaxChanged == 3
\* At most this many status lines per query when getChangedFiles is run alone.
MaxLines == 2

-----------------------------------------------------------------------------
(* Strings.                                                                *)

Undefined == "<undefined>"
NoError == "<none>"

At(s, i) == SubSeq(s, i, i)

IsSpace(c) == c \in {" ", "\t", "\n"}

\* String.prototype.trim
trim(s) ==
    LET idx == {i \in 1..Len(s) : ~IsSpace(At(s, i))}
    IN  IF idx = {} THEN ""
        ELSE LET lo == CHOOSE i \in idx : \A j \in idx : i <= j
                 hi == CHOOSE i \in idx : \A j \in idx : j <= i
             IN  SubSeq(s, lo, hi)

\* String.prototype.split('\n'): the pieces between newlines
RECURSIVE splitFrom(_, _, _)
splitFrom(s, start, i) ==
    IF i > Len(s) THEN <<SubSeq(s, start, Len(s))>>
    ELSE IF At(s, i) = "\n"
         THEN <<SubSeq(s, start, i - 1)>> \o splitFrom(s, i + 1, i + 1)
         ELSE splitFrom(s, start, i + 1)

splitLines(s) == splitFrom(s, 1, 1)

\* line.split(/\s+/).filter(Boolean): the maximal runs of non-space
RECURSIVE tokensFrom(_, _, _)
tokensFrom(s, start, i) ==
    IF i > Len(s)
    THEN IF start < i THEN <<SubSeq(s, start, Len(s))>> ELSE <<>>
    ELSE IF IsSpace(At(s, i))
         THEN (IF start < i THEN <<SubSeq(s, start, i - 1)>> ELSE <<>>)
              \o tokensFrom(s, i + 1, i + 1)
         ELSE tokensFrom(s, start, i + 1)

tokens(line) == tokensFrom(line, 1, 1)

\* String.prototype.indexOf(term) !== -1, scanning from the left
RECURSIVE indexOfFrom(_, _, _)
indexOfFrom(text, term, i) ==
    IF i + Len(term) - 1 > Len(text) THEN FALSE
    ELSE IF SubSeq(text, i, i + Len(term) - 1) = term THEN TRUE
         ELSE indexOfFrom(text, term, i + 1)

includesText(text, term) == indexOfFrom(text, term, 1)

startsWith(s, prefix) ==
    Len(s) >= Len(prefix) /\ SubSeq(s, 1, Len(prefix)) = prefix

endsWith(s, suffix) ==
    Len(s) >= Len(suffix) /\ SubSeq(s, Len(s) - Len(suffix) + 1, Len(s)) = suffix

\* Array.prototype.includes
includes(list, x) == \E i \in 1..Len(list) : list[i] = x

-----------------------------------------------------------------------------
(* client/bin/utils/git.js                                                 *)

_parseFileList(fileListAsString) ==
    LET result == trim(fileListAsString)
    IN  IF result = "" THEN <<>>
        ELSE LET lines == splitLines(result)
             IN  [k \in 1..Len(lines) |->
                    LET s == tokens(lines[k])
                    IN  [mods |-> IF Len(s) >= 1 THEN s[1] ELSE Undefined,
                         file |-> IF Len(s) >= 2 THEN s[2] ELSE Undefined]]

_pickOutFilenameFromList(fileList) ==
    [k \in 1..Len(fileList) |-> fileList[k].file]

\* _.union of two arrays: unique values, in order of first occurrence
RECURSIVE uniq(_, _)
uniq(list, seen) ==
    IF list = <<>> THEN seen
    ELSE uniq(Tail(list),
              IF includes(seen, Head(list)) THEN seen
              ELSE Append(seen, Head(list)))

\* A bug union could have: the two lists concatenated, duplicates kept.
union_NoDedupe(a, b) == a \o b

union(a, b) == uniq(a \o b, <<>>)


-----------------------------------------------------------------------------
(* client/bin/utils/shell.js                                               *)

\* What a spawned command did: its captured streams and its exit code.
CmdWarning == [stdout |-> "", stderr |-> "warning: LF will be replaced by CRLF",
               code |-> 0]
CmdFatal == [stdout |-> "", stderr |-> "fatal: not a git repository",
             code |-> 128]

CmdOutcomes(outs) ==
    {[stdout |-> o, stderr |-> "", code |-> 0] : o \in outs}
        \cup {CmdWarning, CmdFatal}

\* A bug runCmd could have: only the exit code is looked at.
runCmdThrows_ExitCodeOnly(o) == o.code # 0

\* runCmd: exec rejects on a non-zero exit code; any text on standard error
\* is thrown as an Error; otherwise the captured standard output is returned.
runCmdThrows(o) == o.code # 0 \/ o.stderr # ""

runCmdMessage(o) == IF o.code # 0 THEN "Command failed" ELSE o.stderr

\* The record kept of one command handed to runCmd.
ran(cmd, o) == [cmd |-> cmd, stderr |-> o.stderr, code |-> o.code]

logInfo(text) == [level |-> "info", text |-> text]
logSuccess(message) == [level |-> "success", text |-> message]
logError(message) == [level |-> "error", text |-> "Error: " \o message]

\* A bug hasArg could have: the index itself is returned, and -1 is truthy.
hasArg_RawIndex(arg) == TRUE

hasArg(arg) == arg \in argv

-----------------------------------------------------------------------------
(* client/bin/lint.js: constants and pure helpers                          *)

fileExtensions == <<".tsx", ".js", ".ts", ".jsx">>
sourceFoldersToCheck == <<"components/", "libs/", "pages/", "services/">>
baseBranchName == "master"

\* fs.existsSync
existsSync(f) == f \notin missing

filterFilesInSourceFolders(files) ==
    SelectSeq(files, LAMBDA file :
        \E k \in 1..Len(sourceFoldersToCheck) :
            startsWith(file, sourceFoldersToCheck[k]))

filterFilesOfCorrectExtension(files) ==
    SelectSeq(files, LAMBDA file :
        \E k \in 1..Len(fileExtensions) : endsWith(file, fileExtensions[k]))

\* A bug the existence filter could have: nothing is dropped.
filterFilesThatStillExist_KeepAll(files) == files

filterFilesThatStillExist(files) == SelectSeq(files, existsSync)

\* _.sum(results.map(r => r.warningCount))
RECURSIVE sum(_)
sum(ns) == IF ns = <<>> THEN 0 ELSE Head(ns) + sum(Tail(ns))

\* formatter.format(results): the stylish report, empty when nothing is found
format(results) ==
    LET n == sum([k \in 1..Len(results) |->
                    results[k].warningCount + results[k].errorCount])
    IN  IF n = 0 THEN "" ELSE ToString(n) \o " problems"

-----------------------------------------------------------------------------
(* The outside world.                                                      *)

\* The paths the committed diff may report in a lint run, and those the
\* working tree may report.
CommittedPaths == {"components/App.tsx", "README.md", ".eslintrc",
                   "package.json", "pages/index.md"}
UncommittedPaths == {"components/App.tsx", "components/ghost.tsx", ".eslintrc",
                     ".eslintignore", "next.config.js"}

\* The paths that may be gone from the disk.
Deletable == {"components/ghost.tsx", ".eslintrc"}

\* git diff --name-status prints "<code>TAB<path>"; git status --porcelain
\* prints "XY <path>".
NameStatusLines == {"M\t" \o p : p \in CommittedPaths}
PorcelainLines == {" M " \o p : p \in UncommittedPaths}

\* When getChangedFiles is run on its own: the same path under two codes, a
\* rename line with two paths, an untracked file.
GitNameStatusLines == {"M\ta.js", "D\ta.js", "A\tlibs/b.ts", "R100\told.js\tnew.js"}
GitPorcelainLines == {" M a.js", "?? libs/b.ts", "D  old.js", "AM c.ts"}

SeqsUpTo(S, n) == UNION {[1..k -> S] : k \in 0..n}

RECURSIVE joinLines(_)
joinLines(lines) ==
    IF lines = <<>> THEN "" ELSE Head(lines) \o "\n" \o joinLines(Tail(lines))

\* Every standard output of at most n lines drawn from the set lines.
Stdouts(lines, n) == {joinLines(ls) : ls \in SeqsUpTo(lines, n)}

\* The unified diffs git may print for package.json.
DiffTexts == {"",
              "@@ -12 +12 @@\n-    \"lodash\": \"4.17.20\",\n+    \"lodash\": \"4.17.21\",\n",
              "@@ -20 +20 @@\n-    \"eslint\": \"7.5.0\",\n+    \"eslint\": \"7.6.0\",\n",
              "@@ -21 +21 @@\n-    \"eslint-plugin-react\": \"7.20.0\",\n"}

\* What eslint.lintFiles may return: one result per linted file.
FileResults == {[warningCount |-> 0, errorCount |-> 0],
                [warningCount |-> 1, errorCount |-> 0],
                [warningCount |-> 0, errorCount |-> 1]}
EngineResults == SeqsUpTo(FileResults, 2)

Args == SUBSET {"--fix", "--changed"}

-----------------------------------------------------------------------------
(* Initial state: the script has been started with some flags, on some     *)
(* disk; nothing has run yet.                                              *)

UndefinedResults ==
    [defined |-> FALSE, resultText |-> "", warningCount |-> 0, errorCount |-> 0]

Locals ==
    /\ lintOptions = [fix |-> FALSE]
    /\ committedFiles = <<>>
    /\ uncommittedFiles = <<>>
    /\ changeSet = <<>>
    /\ changedFiles = <<>>
    /\ triggerFiles = <<>>
    /\ committedDiff = ""
    /\ uncommittedDiff = ""
    /\ configFileChanged = <<>>
    /\ filteredChangedFiles = <<>>
    /\ mode = "Start"
    /\ lintResults = UndefinedResults
    /\ engineThrew = FALSE
    /\ thrown = NoError
    /\ gitCmds = <<>>
    /\ lintCalls = <<>>
    /\ log = <<>>
    /\ exitCode = 0

Init ==
    /\ pc = "start"
    /\ argv \in Args
    /\ missing \in SUBSET Deletable
    /\ Locals

\* getChangedFiles called on its own, as the module exports it.
InitGit ==
    /\ pc = "committed"
    /\ argv = {}
    /\ missing = {}
    /\ Locals

-----------------------------------------------------------------------------
(* client/bin/utils/git.js: getChangedFiles                                *)

\* const committedFiles = await _getCommittedChangedFiles(baseBranch)
_getCommittedChangedFiles(outs) ==
    /\ pc = "committed"
    /\ \E o \in CmdOutcomes(outs) :
        /\ gitCmds' = Append(gitCmds, ran(
              "git diff --name-status " \o baseBranchName \o "...HEAD", o))
        /\ IF runCmdThrows(o)
           THEN /\ thrown' = runCmdMessage(o)
                /\ pc' = "rejected"
                /\ UNCHANGED committedFiles
           ELSE /\ committedFiles' =
                      _pickOutFilenameFromList(_parseFileList(o.stdout))
                /\ pc' = "status"
                /\ UNCHANGED thrown
    /\ UNCHANGED <<argv, missing, lintOptions, uncommittedFiles, changeSet,
                   changedFiles, triggerFiles, committedDiff, uncommittedDiff,
                   configFileChanged, filteredChangedFiles, mode, lintResults,
                   engineThrew, lintCalls, log, exitCode>>

\* const uncommittedFiles = await _getUncommittedChangedFiles()
\* return _.union(committedFiles, uncommittedFiles)
_getUncommittedChangedFiles(outs) ==
    /\ pc = "status"
    /\ \E o \in CmdOutcomes(outs) :
        /\ gitCmds' = Append(gitCmds, ran("git status --porcelain", o))
        /\ IF runCmdThrows(o)
           THEN /\ thrown' = runCmdMessage(o)
                /\ pc' = "rejected"
                /\ UNCHANGED <<uncommittedFiles, changeSet>>
           ELSE /\ uncommittedFiles' =
                      _pickOutFilenameFromList(_parseFileList(o.stdout))
                /\ changeSet' = union(committedFiles, uncommittedFiles')
                /\ pc' = "changed"
                /\ UNCHANGED thrown
    /\ UNCHANGED <<argv, missing, lintOptions, committedFiles, changedFiles,
                   triggerFiles, committedDiff, uncommittedDiff,
                   configFileChanged, filteredChangedFiles, mode, lintResults,
                   engineThrew, lintCalls, log, exitCode>>

-----------------------------------------------------------------------------
(* client/bin/lint.js: runLinting                                          *)

\* lint.js:122-131: read the flags; without --changed, lint everything.
RunLintingStart ==
    /\ pc = "start"
    /\ lintOptions' = [fix |-> hasArg("--fix")]
    /\ IF ~hasArg("--changed")
       THEN /\ log' = Append(log, logInfo("Running lint checks on all files"))
            /\ mode' = "FullRun"
            /\ pc' = "lint"
       ELSE /\ pc' = "committed"
            /\ UNCHANGED <<log, mode>>
    /\ UNCHANGED <<argv, missing, committedFiles, uncommittedFiles, changeSet,
                   changedFiles, triggerFiles, committedDiff, uncommittedDiff,
                   configFileChanged, filteredChangedFiles, lintResults,
                   engineThrew, thrown, gitCmds, lintCalls, exitCode>>

\* lint.js:133: filterFilesThatStillExist(await getChangedFiles(...)).
\* getChangedFiles has returned, so its two locals are gone.
FilterChangedFiles ==
    /\ pc = "changed"
    /\ changedFiles' = filterFilesThatStillExist(changeSet)
    /\ committedFiles' = <<>>
    /\ uncommittedFiles' = <<>>
    /\ pc' = "policy"
    /\ UNCHANGED <<argv, missing, lintOptions,
                   changeSet, triggerFiles, committedDiff, uncommittedDiff,
                   configFileChanged, filteredChangedFiles, mode, lintResults,
                   engineThrew, thrown, gitCmds, lintCalls, log, exitCode>>

\* A bug the policy could have: the rules chained with else, so that the
\* first one that holds hides the next.
triggersWithoutProbe_ShortCircuit(changed) ==
    IF includes(changed, ".eslintignore") THEN <<".eslintignore">>
    ELSE IF includes(changed, ".eslintrc") THEN <<".eslintrc">>
         ELSE <<>>

\* lint.js:58-64: the two triggers that need no look at a diff
triggersWithoutProbe(changed) ==
    (IF includes(changed, ".eslintignore") THEN <<".eslintignore">> ELSE <<>>)
        \o (IF includes(changed, ".eslintrc") THEN <<".eslintrc">> ELSE <<>>)

\* git.js:69
diffContainsResult(committed, uncommitted, searchTerm) ==
    includesText(committed, searchTerm) \/ includesText(uncommitted, searchTerm)

\* lint.js:57-65: up to the call of diffContains, made only when
\* package.json is among the changed files
InvalidationPolicyStart ==
    /\ pc = "policy"
    /\ triggerFiles' = triggersWithoutProbe(changedFiles)
    /\ IF includes(changedFiles, "package.json")
       THEN /\ pc' = "probeCommitted"
            /\ UNCHANGED configFileChanged
       ELSE /\ configFileChanged' = triggerFiles'
            /\ pc' = "decide"
    /\ UNCHANGED <<argv, missing, lintOptions, committedFiles, uncommittedFiles,
                   changeSet, changedFiles, committedDiff, uncommittedDiff,
                   filteredChangedFiles, mode, lintResults, engineThrew,
                   thrown, gitCmds, lintCalls, log, exitCode>>

\* git.js:66
diffContainsCommitted ==
    /\ pc = "probeCommitted"
    /\ \E o \in CmdOutcomes(DiffTexts) :
        /\ gitCmds' = Append(gitCmds, ran("git diff --unified=0 "
              \o baseBranchName \o "...HEAD package.json", o))
        /\ IF runCmdThrows(o)
           THEN /\ thrown' = runCmdMessage(o)
                /\ pc' = "rejected"
                /\ UNCHANGED committedDiff
           ELSE /\ committedDiff' = o.stdout
                /\ pc' = "probeUncommitted"
                /\ UNCHANGED thrown
    /\ UNCHANGED <<argv, missing, lintOptions, committedFiles, uncommittedFiles,
                   changeSet, changedFiles, triggerFiles, uncommittedDiff,
                   configFileChanged, filteredChangedFiles, mode, lintResults,
                   engineThrew, lintCalls, log, exitCode>>

\* git.js:67-69, lint.js:65-68
diffContainsUncommitted ==
    /\ pc = "probeUncommitted"
    /\ \E o \in CmdOutcomes(DiffTexts) :
        /\ gitCmds' = Append(gitCmds,
              ran("git diff --unified=0 HEAD package.json", o))
        /\ IF runCmdThrows(o)
           THEN /\ thrown' = runCmdMessage(o)
                /\ pc' = "rejected"
                /\ UNCHANGED <<uncommittedDiff, triggerFiles, configFileChanged>>
           ELSE /\ uncommittedDiff' = o.stdout
                /\ triggerFiles' =
                      IF diffContainsResult(committedDiff, uncommittedDiff', "eslint")
                      THEN Append(triggerFiles, "package.json")
                      ELSE triggerFiles
                /\ configFileChanged' = triggerFiles'
                /\ pc' = "decide"
                /\ UNCHANGED thrown
    /\ UNCHANGED <<argv, missing, lintOptions, committedFiles, uncommittedFiles,
                   changeSet, changedFiles, committedDiff,
                   filteredChangedFiles, mode, lintResults, engineThrew,
                   lintCalls, log, exitCode>>

\* Array.prototype.join
RECURSIVE join(_, _)
join(list, sep) ==
    IF list = <<>> THEN ""
    ELSE IF Len(list) = 1 THEN list[1]
         ELSE list[1] \o sep \o join(Tail(list), sep)

\* A bug the flow could have: the folder filter left out.
flowFilters_ExtensionOnly(files) == filterFilesOfCorrectExtension(files)

\* lint.js:143  _.flow(filterFilesInSourceFolders, filterFilesOfCorrectExtension)
flowFilters(files) ==
    filterFilesOfCorrectExtension(filterFilesInSourceFolders(files))

\* Two bugs the branch choice could have: the trigger list is not looked at;
\* an empty filtered list is linted all the same.
chooseMode_IgnoreTriggers(triggers, filtered) ==
    IF Len(filtered) = 0 THEN "NoOpRun" ELSE "FilteredRun"

chooseMode_LintEmpty(triggers, filtered) ==
    IF Len(triggers) # 0 THEN "FullRun" ELSE "FilteredRun"

\* lint.js:136 and 145: the two tests that pick the branch of runLinting
chooseMode(triggers, filtered) ==
    IF Len(triggers) # 0 THEN "FullRun"
    ELSE IF Len(filtered) = 0 THEN "NoOpRun"
         ELSE "FilteredRun"

\* lint.js:136-153: full run on a trigger, else filter; nothing left: return.
\* The policy has returned, so its working values are gone.
ChooseRun ==
    /\ pc = "decide"
    /\ triggerFiles' = <<>>
    /\ committedDiff' = ""
    /\ uncommittedDiff' = ""
    /\ mode' = chooseMode(configFileChanged, flowFilters(changedFiles))
    /\ filteredChangedFiles' =
          IF mode' = "FullRun" THEN filteredChangedFiles
          ELSE flowFilters(changedFiles)
    /\ log' = Append(log, logInfo(
          CASE mode' = "FullRun" ->
                 "Running lint checks on all files, since changes were made to: "
                 \o join(configFileChanged, ", ")
            [] mode' = "NoOpRun" ->
                 "There are no updated files since " \o baseBranchName
                 \o ". No linting required."
            [] OTHER ->
                 "Running lint checks on "
                 \o ToString(Len(filteredChangedFiles'))
                 \o " files(s), which were changed since \""
                 \o baseBranchName \o "\"."))
    /\ pc' = IF mode' = "NoOpRun" THEN "return" ELSE "lint"
    /\ UNCHANGED <<argv, missing, lintOptions, committedFiles, uncommittedFiles,
                   changeSet, changedFiles, configFileChanged, lintResults,
                   engineThrew, thrown, gitCmds, lintCalls, exitCode>>

\* The first argument of runLintOnFiles at its three call sites
\* (lint.js:128, 138, 154).
filesOrFolders ==
    IF mode = "FilteredRun" THEN filteredChangedFiles ELSE sourceFoldersToCheck

\* lint.js:36-40
lintSummary(results) ==
    [defined |-> TRUE,
     resultText |-> format(results),
     warningCount |-> sum([k \in 1..Len(results) |-> results[k].warningCount]),
     errorCount |-> sum([k \in 1..Len(results) |-> results[k].errorCount])]

\* lint.js:19-44: the engine is invoked and returns results, or the
\* invocation throws; the catch logs and the function then returns undefined.
runLintOnFiles ==
    /\ pc = "lint"
    /\ lintCalls' = Append(lintCalls,
          [files |-> filesOrFolders, fix |-> lintOptions.fix,
           extensions |-> fileExtensions])
    /\ \/ \E results \in EngineResults :
            /\ lintResults' = lintSummary(results)
            /\ UNCHANGED <<engineThrew, log>>
       \/ /\ lintResults' = UndefinedResults
          /\ engineThrew' = TRUE
          /\ log' = Append(log, logError("Error while running Linter on files"))
    /\ pc' = "handle"
    /\ UNCHANGED <<argv, missing, lintOptions, committedFiles, uncommittedFiles,
                   changeSet, changedFiles, triggerFiles, committedDiff,
                   uncommittedDiff, configFileChanged, filteredChangedFiles,
                   mode, thrown, gitCmds, exitCode>>

\* lint.js:96-109.  The parameter is destructured before the try block is
\* entered, so undefined makes the call itself throw a TypeError; the Error
\* thrown for a non-zero count is thrown inside the try and caught by it.
handleLintResults ==
    /\ pc = "handle"
    /\ IF ~lintResults.defined
       THEN /\ thrown' =
                  "Cannot destructure property 'resultText' of 'undefined' as it is undefined."
            /\ pc' = "rejected"
            /\ UNCHANGED log
       ELSE /\ log' = log \o <<logInfo(lintResults.resultText),
                  IF lintResults.errorCount # 0 \/ lintResults.warningCount # 0
                  THEN logError("Error while display the lint results - ")
                  ELSE logSuccess("Lint checks passed")>>
            /\ pc' = "return"
            /\ UNCHANGED thrown
    /\ UNCHANGED <<argv, missing, lintOptions, committedFiles, uncommittedFiles,
                   changeSet, changedFiles, triggerFiles, committedDiff,
                   uncommittedDiff, configFileChanged, filteredChangedFiles,
                   mode, lintResults, engineThrew, gitCmds, lintCalls, exitCode>>

\* lint.js:159-161: runLinting resolved; the process ends with its default
\* exit code.
TopLevelReturn ==
    /\ pc = "return"
    /\ pc' = "exited"
    /\ UNCHANGED <<argv, missing, lintOptions, committedFiles, uncommittedFiles,
                   changeSet, changedFiles, triggerFiles, committedDiff,
                   uncommittedDiff, configFileChanged, filteredChangedFiles,
                   mode, lintResults, engineThrew, thrown, gitCmds, lintCalls,
                   log, exitCode>>

\* lint.js:162-167
TopLevelCatch ==
    /\ pc = "rejected"
    /\ log' = IF thrown # "" THEN Append(log, logError(thrown)) ELSE log
    /\ exitCode' = 1
    /\ pc' = "exited"
    /\ UNCHANGED <<argv, missing, lintOptions, committedFiles, uncommittedFiles,
                   changeSet, changedFiles, triggerFiles, committedDiff,
                   uncommittedDiff, configFileChanged, filteredChangedFiles,
                   mode, lintResults, engineThrew, thrown, gitCmds, lintCalls>>

-----------------------------------------------------------------------------
(* Specifications.                                                         *)

\* One run of the lint script.
Next ==
    \/ RunLintingStart
    \/ _getCommittedChangedFiles(Stdouts(NameStatusLines, MaxChanged))
    \/ _getUncommittedChangedFiles(
          Stdouts(PorcelainLines, MaxChanged - Len(committedFiles)))
    \/ FilterChangedFiles
    \/ InvalidationPolicyStart
    \/ diffContainsCommitted
    \/ diffContainsUncommitted
    \/ ChooseRun
    \/ runLintOnFiles
    \/ handleLintResults
    \/ TopLevelReturn
    \/ TopLevelCatch

Spec == Init /\ [][Next]_vars

\* getChangedFiles alone, over status text of every shape.
NextGit ==
    \/ _getCommittedChangedFiles(Stdouts(GitNameStatusLines, MaxLines))
    \/ _getUncommittedChangedFiles(Stdouts(GitPorcelainLines, MaxLines))

SpecGit == InitGit /\ [][NextGit]_vars

-----------------------------------------------------------------------------
(* Properties.                                                             *)

Range(list) == {list[i] : i \in 1..Len(list)}

NoDuplicates(list) ==
    \A i, j \in 1..Len(list) : i # j => list[i] # list[j]

FirstIndex(list, x) ==
    CHOOSE i \in 1..Len(list) :
        list[i] = x /\ \A j \in 1..(i - 1) : list[j] # x

\* The fixed source-folder list of a full-repo pass.
FullRepoPaths == <<"components/", "libs/", "pages/", "services/">>

InAllowedFolder(p) ==
    \E f \in {"components/", "libs/", "pages/", "services/"} :
        Len(p) >= Len(f) /\ SubSeq(p, 1, Len(f)) = f

HasAllowedExtension(p) ==
    \E e \in {".tsx", ".js", ".ts", ".jsx"} :
        Len(p) >= Len(e) /\ SubSeq(p, Len(p) - Len(e) + 1, Len(p)) = e

OnDisk(p) == p \notin missing

\* What the three File Filters should leave of a list.
Lintable(list) ==
    SelectSeq(list, LAMBDA p : InAllowedFolder(p) /\ HasAllowedExtension(p) /\ OnDisk(p))

MentionsEslint(text) ==
    \E i \in 1..Len(text) :
        i + 5 <= Len(text) /\ SubSeq(text, i, i + 5) = "eslint"

\* runLinting has chosen its branch.
Decided == mode # "Start"

\* The lint engine has been called once, on the fixed source-folder list.
OneFullRepoCall ==
    Len(lintCalls) = 1 /\ lintCalls[1].files = FullRepoPaths

\* C1: a run in which the lint engine returned a result with errorCount > 0
\* or warningCount > 0 prints the results and ends with exit code 1.
C1_FindingsExitNonZero ==
    (pc = "exited" /\ lintResults.defined
        /\ (lintResults.errorCount > 0 \/ lintResults.warningCount > 0))
    => /\ \E i \in 1..Len(log) : log[i] = logInfo(lintResults.resultText)
       /\ exitCode = 1

\* C2: without --changed the run makes exactly one full-repo lint pass: no
\* git command is ever run, nothing is computed from a change set, and the
\* one call of the lint engine is on the fixed source-folder list.
C2_NoFlagAlwaysFullRun ==
    "--changed" \notin argv =>
        /\ gitCmds = <<>>
        /\ changeSet = <<>> /\ changedFiles = <<>>
        /\ configFileChanged = <<>> /\ filteredChangedFiles = <<>>
        /\ pc \in {"start", "lint", "handle", "return", "rejected", "exited"}
        /\ IF pc \in {"start", "lint"} THEN lintCalls = <<>>
           ELSE mode = "FullRun" /\ OneFullRepoCall

C2_Witness ==
    /\ "--changed" \notin argv
    /\ missing = Deletable
    /\ pc = "exited"
    /\ gitCmds = <<>>
    /\ OneFullRepoCall

\* C3: with --changed, once the Invalidation Policy has returned a non-empty
\* trigger list the run is a full-repo pass: the lint engine is called on
\* the fixed source-folder list, whatever the filters would leave of the
\* change set.
C3_TriggersForceFullRun ==
    (Len(configFileChanged) # 0 /\ pc # "decide") =>
        /\ mode = "FullRun"
        /\ IF pc = "lint" THEN lintCalls = <<>> ELSE OneFullRepoCall

\* A trigger, nothing lintable in the change set, and still a full-repo call.
C3_Witness ==
    /\ pc = "exited"
    /\ Len(configFileChanged) # 0
    /\ Lintable(changeSet) = <<>>
    /\ OneFullRepoCall

\* C4: with --changed and an empty trigger list, when the filters leave
\* nothing of the change set the lint engine is never called and the run
\* ends with exit code 0; when they leave something, the lint engine is
\* called exactly once, on exactly the filtered list.
C4_NoOpOrFilteredRun ==
    ("--changed" \in argv /\ Decided /\ Len(configFileChanged) = 0) =>
        IF Lintable(changeSet) = <<>>
        THEN /\ mode = "NoOpRun"
             /\ lintCalls = <<>>
             /\ pc \in {"return", "exited"}
             /\ exitCode = 0
        ELSE /\ mode = "FilteredRun"
             /\ IF pc = "lint" THEN lintCalls = <<>>
                ELSE /\ Len(lintCalls) = 1
                     /\ lintCalls[1].files = Lintable(changeSet)

\* Files were changed, none of them lintable: no call, exit code 0.
C4_Witness ==
    /\ pc = "exited"
    /\ "--changed" \in argv
    /\ mode = "NoOpRun"
    /\ Len(changeSet) = MaxChanged
    /\ lintCalls = <<>>
    /\ exitCode = 0

\* C5: when the lint engine throws inside runLintOnFiles, the exception is
\* logged and swallowed: no exception leaves runLinting, and the run ends
\* as one that produced no results.
C5_EngineErrorSwallowed ==
    engineThrew =>
        /\ \E i \in 1..Len(log) :
              log[i] = logError("Error while running Linter on files")
        /\ pc # "rejected"
        /\ thrown = NoError

\* C6: with --changed, a git command that writes to standard error, even
\* with exit code 0, makes runCmd fail; the failure leaves runLinting, no
\* further command is run, the lint engine is never called, and the process
\* exits with code 1.
C6_StderrAbortsRun ==
    \A i \in 1..Len(gitCmds) :
        gitCmds[i].stderr # "" =>
            /\ i = Len(gitCmds)
            /\ pc \in {"rejected", "exited"}
            /\ thrown # NoError
            /\ lintCalls = <<>>
            /\ (pc = "exited" => exitCode = 1)

\* The fourth command, the second diff probe, warns with exit code 0.
C6_Witness ==
    /\ pc = "exited"
    /\ Len(gitCmds) = 4
    /\ gitCmds[4].stderr # ""
    /\ gitCmds[4].code = 0
    /\ lintCalls = <<>>
    /\ exitCode = 1

\* C7: the trigger list the Invalidation Policy returns is the sub-list of
\* .eslintignore, .eslintrc, package.json whose own rule holds: the first two
\* iff they are in the change set it was given, package.json iff it is in
\* that change set and one of its diffs contains "eslint".
C7_TriggerListByRule ==
    pc = "decide" =>
        /\ configFileChanged =
              SelectSeq(<<".eslintignore", ".eslintrc", "package.json">>,
                  LAMBDA f :
                      /\ f \in Range(changedFiles)
                      /\ f = "package.json" =>
                            (MentionsEslint(committedDiff)
                                \/ MentionsEslint(uncommittedDiff)))
        /\ changedFiles = <<".eslintrc">> => configFileChanged = <<".eslintrc">>
        /\ (/\ "package.json" \in Range(changedFiles)
            /\ Range(changedFiles) \cap {".eslintignore", ".eslintrc"} = {}
            /\ ~MentionsEslint(committedDiff)
            /\ ~MentionsEslint(uncommittedDiff)) => configFileChanged = <<>>

\* All three rules hold at once, the manifest's through its uncommitted diff.
C7_Witness ==
    /\ pc = "decide"
    /\ configFileChanged = <<".eslintignore", ".eslintrc", "package.json">>
    /\ ~MentionsEslint(committedDiff)

\* C8, as claimed: the existence filter runs last, so a trigger file of the
\* change set that is gone from the disk still gives a non-empty trigger
\* list and a full-repo run.
C8_DeletedTriggerForcesFullRun ==
    (Decided /\ \E f \in {".eslintignore", ".eslintrc"} :
                    f \in Range(changeSet) /\ f \in missing)
    => Len(configFileChanged) # 0 /\ mode = "FullRun"

\* C8, amended: the existence filter runs first.  The Invalidation Policy is
\* given the change set without the paths gone from the disk, so
\* .eslintignore or .eslintrc is a trigger iff it is in the change set and
\* still on disk, and a run whose only changed trigger files are gone from
\* the disk is not widened to a full-repo run.
C8_ExistenceFilterFirst ==
    /\ pc \notin {"start", "committed", "status", "changed"} =>
          changedFiles = SelectSeq(changeSet, OnDisk)
    /\ ("--changed" \in argv /\ Decided) =>
          /\ \A f \in {".eslintignore", ".eslintrc"} :
                f \in Range(configFileChanged)
                    <=> (f \in Range(changeSet) /\ OnDisk(f))
          /\ \A f \in Range(configFileChanged) : OnDisk(f)
          /\ (\A f \in {".eslintignore", ".eslintrc", "package.json"} :
                f \in Range(changeSet) => ~OnDisk(f)) => mode # "FullRun"

\* .eslintrc was changed and is gone from the disk: no trigger, no full run.
C8_Witness ==
    /\ pc = "exited"
    /\ ".eslintrc" \in Range(changeSet)
    /\ ".eslintrc" \in missing
    /\ configFileChanged = <<>>
    /\ mode = "FilteredRun"
    /\ Len(lintCalls) = 1

\* C9: getChangedFiles returns the union of the committed and the
\* uncommitted path lists: every path of either exactly once and no other,
\* ordered by first occurrence scanning committed then uncommitted; merging
\* a duplicate-free list with itself gives that list back.
C9_OrderedUnion ==
    pc = "changed" =>
        LET all == committedFiles \o uncommittedFiles
        IN  /\ Range(changeSet) = Range(committedFiles) \cup Range(uncommittedFiles)
            /\ NoDuplicates(changeSet)
            /\ \A i, j \in 1..Len(changeSet) :
                  i < j => FirstIndex(all, changeSet[i]) < FirstIndex(all, changeSet[j])
            /\ (NoDuplicates(committedFiles) /\ uncommittedFiles = committedFiles)
                  => changeSet = committedFiles

\* The same path under two codes, and again in the working tree.
C9_Witness ==
    /\ pc = "changed"
    /\ committedFiles = <<"a.js", "a.js">>
    /\ uncommittedFiles = <<"libs/b.ts", "a.js">>
    /\ changeSet = <<"a.js", "libs/b.ts">>

\* C10: in a filtered run the lint engine is handed exactly the paths of the
\* change set, in change-set order, that start with an allowed folder, end
\* with an allowed extension and exist on disk; composing the three filters
\* in any order gives that same list.
C10_FilteredRunPaths ==
    (mode = "FilteredRun" /\ Len(lintCalls) > 0) =>
        LET handed == lintCalls[1].files
            F(l) == filterFilesInSourceFolders(l)
            X(l) == filterFilesOfCorrectExtension(l)
            E(l) == filterFilesThatStillExist(l)
        IN  /\ handed = Lintable(changeSet)
            /\ handed = X(F(E(changeSet)))
            /\ handed = E(X(F(changeSet)))
            /\ handed = E(F(X(changeSet)))
            /\ handed = F(E(X(changeSet)))
            /\ handed = F(X(E(changeSet)))
            /\ handed = X(E(F(changeSet)))

\* The spec's example: README.md is no source file and ghost.tsx is gone.
C10_Witness ==
    /\ changeSet = <<"components/App.tsx", "README.md", "components/ghost.tsx">>
    /\ missing = {"components/ghost.tsx"}
    /\ mode = "FilteredRun"
    /\ Len(lintCalls) = 1
    /\ lintCalls[1].files = <<"components/App.tsx">>

====
